---- MODULE Spec2Model ----
(***************************************************************************)
(* The account/post data-access layer (DatabaseManager, trial_mongo.py)    *)
(* and the HTTP endpoints that call it (yasmin_18_fastmongo (1).py), over  *)
(* a document store with a unique index on users.email.                    *)
(*                                                                         *)
(* Every handler is a sequence of store round trips.  Step runs one round  *)
(* trip of a call frame; Run runs a frame to its return.  The sequential   *)
(* specifications take each handler as one atomic action (Run); SpecConc,  *)
(* SpecDeletes and SpecSteps interleave the round trips of two clients     *)
(* (Step).                                                                 *)
(***************************************************************************)
EXTENDS Integers, Sequences, FiniteSets, TLC

VARIABLES users, posts, nextOid, clock, last, frames

vars == <<users, posts, nextOid, clock, last, frames>>

----------------------------------------------------------------------------
(* Bounds *)

\* ObjectIds the store hands out (accounts and posts together).
MaxOids == 3
\* Largest value of the wall clock read by datetime.now().
MaxClock == 1

----------------------------------------------------------------------------
(* Values *)

\* Python's None and a present value.
None == << >>
Some(v) == <<v>>

Names == {"Ana", "Bob"}
Emails == {"ana@x.com", "bob@x.com"}
Ages == {30}
Titles == {"Hi", "Yo"}
Contents == {"Hello"}

Opt(S) == {None} \cup {Some(v) : v \in S}

\* A Python str used as an identifier: hex says whether it is 24 hex digits,
\* n which string of that kind it is.
Str(h, n) == [type |-> "str", hex |-> h, n |-> n]

\* ObjectId.is_valid(s) for a str s.
is_valid(s) == s.type = "str" /\ s.hex

\* ObjectId(s): the native key the 24 hex digits denote.
ObjectId(s) == [type |-> "ObjectId", hex |-> TRUE, n |-> s.n]

\* str(k) of an ObjectId (its 24 hex digits) or of a str (itself).
str(k) == [type |-> "str", hex |-> k.hex, n |-> k.n]

\* Mutant of normalize: the string is used as the key whatever it holds.
normalize_verbatim(s) == s

\* "convert string user_id to ObjectId if it is a valid ObjectId"
normalize(s) == IF is_valid(s) THEN ObjectId(s) ELSE s

\* The n-th ObjectId the driver generates.
Oid(n) == [type |-> "ObjectId", hex |-> TRUE, n |-> n]

\* The identifier strings a caller may pass: the hex form of every ObjectId
\* and one malformed string.
BadId == Str(FALSE, 0)
IdStrings == {str(Oid(n)) : n \in 1..MaxOids} \cup {BadId}

NoFields == [name |-> None, email |-> None, age |-> None,
             title |-> None, content |-> None]

----------------------------------------------------------------------------
(* The store: pymongo Collection operations on a collection value *)

\* users.create_index("email", unique=True): would doc d under key k clash?
email_clash(U, k, d) == \E o \in DOMAIN U : o # k /\ U[o].email = d.email

\* Mutant of set_user: the update rewrites the whole document, and created_at
\* falls back to 0.
set_user_restamp(d, f) ==
    [name |-> IF f.name = None THEN d.name ELSE f.name[1],
     email |-> IF f.email = None THEN d.email ELSE f.email[1],
     age |-> IF f.age = None THEN d.age ELSE f.age[1],
     created_at |-> 0]

\* {"$set": fields} on the account document d; only provided fields are written.
set_user(d, f) ==
    [d EXCEPT !.name = IF f.name = None THEN @ ELSE f.name[1],
              !.email = IF f.email = None THEN @ ELSE f.email[1],
              !.age = IF f.age = None THEN @ ELSE f.age[1]]

\* {"$set": fields} on a post document: $set creates a field that is absent.
set_post(d, f) ==
    [d EXCEPT !.name = IF f.name = None THEN @ ELSE f.name,
              !.email = IF f.email = None THEN @ ELSE f.email,
              !.age = IF f.age = None THEN @ ELSE f.age,
              !.title = IF f.title = None THEN @ ELSE f.title[1],
              !.content = IF f.content = None THEN @ ELSE f.content[1]]

\* The documents of P that the filter {"user_id": key} matches.
matching(P, key) == {p \in DOMAIN P : P[p].user_id = key}

\* Mutant of update_many: update_one, which changes one matching post only.
update_many_first(P, key, f) ==
    IF matching(P, key) = {} THEN P
    ELSE LET q == CHOOSE q \in matching(P, key) : TRUE
         IN  [p \in DOMAIN P |->
                IF p = q
                THEN [P[p] EXCEPT !.name = IF f.name = None THEN @ ELSE f.name,
                                  !.email = IF f.email = None THEN @ ELSE f.email,
                                  !.age = IF f.age = None THEN @ ELSE f.age]
                ELSE P[p]]

\* posts_collection.update_many({"user_id": key}, {"$set": f})
update_many(P, key, f) ==
    [p \in DOMAIN P |-> IF P[p].user_id = key THEN set_post(P[p], f) ELSE P[p]]

\* Mutant of delete_many: delete_one, which removes one matching post only.
delete_many_first(P, key) ==
    IF matching(P, key) = {} THEN P
    ELSE LET q == CHOOSE q \in matching(P, key) : TRUE
         IN  [p \in DOMAIN P \ {q} |-> P[p]]

\* posts_collection.delete_many({"user_id": key})
delete_many(P, key) ==
    [p \in {q \in DOMAIN P : P[q].user_id # key} |-> P[p]]

\* Mutant of delete_one: the acknowledgement is reported as deleted_count.
delete_one_acknowledged(C, key) ==
    IF key \in DOMAIN C
    THEN [coll |-> [o \in DOMAIN C \ {key} |-> C[o]], deleted_count |-> 1]
    ELSE [coll |-> C, deleted_count |-> 1]

\* collection.delete_one({"_id": key}): the collection and deleted_count.
delete_one(C, key) ==
    IF key \in DOMAIN C
    THEN [coll |-> [o \in DOMAIN C \ {key} |-> C[o]], deleted_count |-> 1]
    ELSE [coll |-> C, deleted_count |-> 0]

\* Mutant of update_one_user: the unique index is consulted on insert only.
update_one_user_unchecked(U, key, f) ==
    IF key \notin DOMAIN U
    THEN [coll |-> U, modified_count |-> 0, exc |-> "none"]
    ELSE [coll |-> [U EXCEPT ![key] = set_user(@, f)],
          modified_count |-> IF set_user(U[key], f) # U[key] THEN 1 ELSE 0,
          exc |-> "none"]

\* Mutant of update_one_user: matched_count is reported as modified_count.
update_one_user_matched(U, key, f) ==
    IF key \notin DOMAIN U
    THEN [coll |-> U, modified_count |-> 0, exc |-> "none"]
    ELSE IF email_clash(U, key, set_user(U[key], f))
    THEN [coll |-> U, modified_count |-> 0, exc |-> "DuplicateKeyError"]
    ELSE [coll |-> [U EXCEPT ![key] = set_user(@, f)],
          modified_count |-> 1,
          exc |-> "none"]

\* users_collection.update_one({"_id": key}, {"$set": f}): the collection,
\* modified_count (documents actually changed) and the error raised.
update_one_user(U, key, f) ==
    IF key \notin DOMAIN U
    THEN [coll |-> U, modified_count |-> 0, exc |-> "none"]
    ELSE IF email_clash(U, key, set_user(U[key], f))
    THEN [coll |-> U, modified_count |-> 0, exc |-> "DuplicateKeyError"]
    ELSE [coll |-> [U EXCEPT ![key] = set_user(@, f)],
          modified_count |-> IF set_user(U[key], f) # U[key] THEN 1 ELSE 0,
          exc |-> "none"]

\* posts_collection.update_one({"_id": key}, {"$set": f})
update_one_post(P, key, f) ==
    IF key \notin DOMAIN P
    THEN [coll |-> P, modified_count |-> 0]
    ELSE [coll |-> [P EXCEPT ![key] = set_post(@, f)],
          modified_count |-> IF set_post(P[key], f) # P[key] THEN 1 ELSE 0]

\* Mutant of insert_one_user: no unique index on email.
insert_one_user_unchecked(U, k, d) ==
    [coll |-> [o \in DOMAIN U \cup {k} |-> IF o = k THEN d ELSE U[o]],
     exc |-> "none"]

\* users_collection.insert_one(doc) with the generated _id k.
insert_one_user(U, k, d) ==
    IF email_clash(U, k, d)
    THEN [coll |-> U, exc |-> "DuplicateKeyError"]
    ELSE [coll |-> [o \in DOMAIN U \cup {k} |-> IF o = k THEN d ELSE U[o]],
          exc |-> "none"]

\* posts_collection.insert_one(doc) with the generated _id k.
insert_one_post(P, k, d) ==
    [o \in DOMAIN P \cup {k} |-> IF o = k THEN d ELSE P[o]]

\* users_collection.find_one({"_id": key}) is not None
find_one(C, key) == key \in DOMAIN C

----------------------------------------------------------------------------
(* Call frames: one call of a handler, between its store round trips *)

\* No identifier argument (create_user takes none).
NoArg == Str(FALSE, 1)

\* The frame of a client that is not in a call.
Idle == [op |-> "none", arg |-> NoArg, fields |-> NoFields, pc |-> "done",
         ops |-> << >>, ret |-> FALSE, new |-> {}, status |-> 0,
         exc |-> "none", count |-> 0, concurrent |-> FALSE]

\* The frame at entry of handler op, about to make its first round trip at pc.
Begin(op, arg, fields, pc) ==
    [Idle EXCEPT !.op = op, !.arg = arg, !.fields = fields, !.pc = pc]

\* The handler returns ret (for a create: whether an id, not None, is
\* returned) after catching exc, if any.
Return(f, ret, exc) == [f EXCEPT !.pc = "done", !.ret = ret, !.exc = exc]

\* The frame after issuing the store operation named o.
Issue(f, o) == [f EXCEPT !.ops = Append(@, o)]

\* The data the store holds and the generators the handlers read.
Store == [users |-> users, posts |-> posts, nextOid |-> nextOid, clock |-> clock]

----------------------------------------------------------------------------
(* DatabaseManager (trial_mongo.py): one round trip of each method.        *)
(* fails: the store call raises (any driver or transport exception);       *)
(* tick: how far the wall clock moved since it was last read.              *)

create_user(S, f, fails, tick) ==
    LET now == S.clock + tick
        user_doc == [name |-> f.fields.name[1], email |-> f.fields.email[1],
                     age |-> f.fields.age[1], created_at |-> now]
        k == Oid(S.nextOid)
        result == insert_one_user(S.users, k, user_doc)
        g == Issue(f, "users.insert_one")
        S1 == [S EXCEPT !.clock = now]
    IN  IF fails THEN [S |-> S1, f |-> Return(g, FALSE, "StoreError")]
        ELSE IF result.exc # "none"
        THEN [S |-> S1, f |-> Return(g, FALSE, result.exc)]
        ELSE [S |-> [S1 EXCEPT !.users = result.coll, !.nextOid = @ + 1],
              f |-> [Return(g, TRUE, "none") EXCEPT !.new = {str(k)}]]

create_post(S, f, fails, tick) ==
    LET now == S.clock + tick
        user_object_id == normalize(f.arg)
        post_doc == [user_id |-> user_object_id, title |-> f.fields.title[1],
                     content |-> f.fields.content[1], created_at |-> now,
                     name |-> None, email |-> None, age |-> None]
        k == Oid(S.nextOid)
        g == Issue(f, "posts.insert_one")
        S1 == [S EXCEPT !.clock = now]
    IN  IF fails THEN [S |-> S1, f |-> Return(g, FALSE, "StoreError")]
        ELSE [S |-> [S1 EXCEPT !.posts = insert_one_post(S.posts, k, post_doc),
                               !.nextOid = @ + 1],
              f |-> [Return(g, TRUE, "none") EXCEPT !.new = {str(k)}]]

\* update_fields of update_user: the arguments that are not None.
update_fields(f) == [NoFields EXCEPT !.name = f.fields.name,
                                     !.email = f.fields.email,
                                     !.age = f.fields.age]

\* update_user enters at update_many "if update_fields", else at update_one.
update_user_entry(fields) ==
    IF fields.name # None \/ fields.email # None \/ fields.age # None
    THEN "update_many" ELSE "update_one"

update_user(S, f, fails, tick) ==
    LET user_object_id == normalize(f.arg)
    IN  IF f.pc = "update_many"
        THEN LET g == Issue(f, "posts.update_many")
             IN  IF fails THEN [S |-> S, f |-> Return(g, FALSE, "StoreError")]
                 ELSE [S |-> [S EXCEPT !.posts = update_many(@, user_object_id,
                                                             update_fields(f))],
                       f |-> [g EXCEPT !.pc = "update_one",
                                       !.count = Cardinality(matching(S.posts,
                                                                      user_object_id))]]
        ELSE LET g == Issue(f, "users.update_one")
                 result == update_one_user(S.users, user_object_id, update_fields(f))
             IN  IF fails THEN [S |-> S, f |-> Return(g, FALSE, "StoreError")]
                 ELSE IF result.exc # "none"
                 THEN [S |-> S, f |-> Return(g, FALSE, result.exc)]
                 ELSE [S |-> [S EXCEPT !.users = result.coll],
                       f |-> Return(g, result.modified_count > 0, "none")]

\* update_fields of update_post.
post_update_fields(f) == [NoFields EXCEPT !.title = f.fields.title,
                                          !.content = f.fields.content]

\* update_post issues update_one only "if update_fields"; otherwise it falls
\* off its end and returns None (falsy) without a round trip.
update_post_entry(fields) ==
    IF fields.title # None \/ fields.content # None THEN "update_one" ELSE "done"

update_post(S, f, fails, tick) ==
    LET post_object_id == normalize(f.arg)
        g == Issue(f, "posts.update_one")
        result == update_one_post(S.posts, post_object_id, post_update_fields(f))
    IN  IF fails THEN [S |-> S, f |-> Return(g, FALSE, "StoreError")]
        ELSE [S |-> [S EXCEPT !.posts = result.coll],
              f |-> Return(g, result.modified_count > 0, "none")]

\* Mutant of delete_user: the account is deleted first, its posts second.
delete_user_account_first(S, f, fails, tick) ==
    LET user_object_id == normalize(f.arg)
    IN  IF f.pc = "delete_many"
        THEN LET g == Issue(f, "users.delete_one")
                 result == delete_one(S.users, user_object_id)
             IN  IF fails THEN [S |-> S, f |-> Return(g, FALSE, "StoreError")]
                 ELSE [S |-> [S EXCEPT !.users = result.coll],
                       f |-> [g EXCEPT !.pc = "delete_one",
                                       !.ret = result.deleted_count > 0]]
        ELSE LET g == Issue(f, "posts.delete_many")
             IN  IF fails THEN [S |-> S, f |-> Return(g, FALSE, "StoreError")]
                 ELSE [S |-> [S EXCEPT !.posts = delete_many(@, user_object_id)],
                       f |-> Return([g EXCEPT !.count =
                                        Cardinality(matching(S.posts, user_object_id))],
                                    f.ret, "none")]

delete_user(S, f, fails, tick) ==
    LET user_object_id == normalize(f.arg)
    IN  IF f.pc = "delete_many"
        THEN LET g == Issue(f, "posts.delete_many")
             IN  IF fails THEN [S |-> S, f |-> Return(g, FALSE, "StoreError")]
                 ELSE [S |-> [S EXCEPT !.posts = delete_many(@, user_object_id)],
                       f |-> [g EXCEPT !.pc = "delete_one",
                                       !.count = Cardinality(matching(S.posts,
                                                                      user_object_id))]]
        ELSE LET g == Issue(f, "users.delete_one")
                 result == delete_one(S.users, user_object_id)
             IN  IF fails THEN [S |-> S, f |-> Return(g, FALSE, "StoreError")]
                 ELSE [S |-> [S EXCEPT !.users = result.coll],
                       f |-> Return(g, result.deleted_count > 0, "none")]

delete_post(S, f, fails, tick) ==
    LET post_object_id == normalize(f.arg)
        g == Issue(f, "posts.delete_one")
        result == delete_one(S.posts, post_object_id)
    IN  IF fails THEN [S |-> S, f |-> Return(g, FALSE, "StoreError")]
        ELSE [S |-> [S EXCEPT !.posts = result.coll],
              f |-> Return(g, result.deleted_count > 0, "none")]

----------------------------------------------------------------------------
(* The HTTP endpoints (yasmin_18_fastmongo (1).py): one round trip of each. *)
(* status is the response's HTTP status code.                               *)

Respond(f, code) == [f EXCEPT !.pc = "done", !.status = code]

\* Every endpoint that takes an id answers 400 "Invalid user ID format"
\* before any round trip, else starts with find_one "Check if user exists".
api_entry(op, arg, fields) ==
    IF ~is_valid(arg) THEN Respond(Begin(op, arg, fields, "done"), 400)
    ELSE Begin(op, arg, fields, "find_one")

\* The find_one round trip of an endpoint; next is its following round trip.
api_find_user(S, f, fails, next) ==
    LET g == Issue(f, "users.find_one")
    IN  IF fails THEN [S |-> S, f |-> Respond([g EXCEPT !.exc = "StoreError"], 500)]
        ELSE IF ~find_one(S.users, ObjectId(f.arg))
        THEN [S |-> S, f |-> Respond(g, 404)]
        ELSE [S |-> S, f |-> [g EXCEPT !.pc = next]]

\* POST /users/: the HTTPException(400) for "no id returned" is raised inside
\* the try block, whose "except Exception" catches it and raises the 500.
api_create_user(S, f, fails, tick) ==
    LET r == create_user(S, f, fails, tick)
        raised == IF r.f.ret THEN "none" ELSE "HTTPException(400)"
        caught == raised # "none"
    IN  [S |-> r.S, f |-> Respond(r.f, IF caught THEN 500 ELSE 201)]

api_create_post(S, f, fails, tick) ==
    IF f.pc = "find_one" THEN api_find_user(S, f, fails, "insert")
    ELSE LET r == create_post(S, f, fails, tick)
         IN  [S |-> r.S, f |-> Respond(r.f, IF r.f.ret THEN 201 ELSE 400)]

api_update_user(S, f, fails, tick) ==
    IF f.pc = "find_one" THEN api_find_user(S, f, fails, "update_one")
    ELSE LET g == Issue(f, "users.update_one")
             result == update_one_user(S.users, ObjectId(f.arg), update_fields(f))
         IN  IF fails
             THEN [S |-> S, f |-> Respond([g EXCEPT !.exc = "StoreError"], 500)]
             ELSE IF result.exc # "none"
             THEN [S |-> S, f |-> Respond([g EXCEPT !.exc = result.exc], 500)]
             ELSE [S |-> [S EXCEPT !.users = result.coll],
                   f |-> Respond([g EXCEPT !.ret = result.modified_count > 0], 200)]

api_delete_user(S, f, fails, tick) ==
    IF f.pc = "find_one" THEN api_find_user(S, f, fails, "delete_many")
    ELSE LET r == delete_user(S, f, fails, tick)
         IN  IF r.f.pc = "done"
             THEN [S |-> r.S, f |-> Respond(r.f, IF r.f.ret THEN 200 ELSE 400)]
             ELSE r

\* GET /users/{user_id}: the response.
api_get_user(U, user_id) ==
    IF ~is_valid(user_id) THEN [status |-> 400, body |-> {}]
    ELSE IF ~find_one(U, ObjectId(user_id)) THEN [status |-> 404, body |-> {}]
    ELSE LET user == U[ObjectId(user_id)]
         IN  [status |-> 200,
              body |-> {[id |-> str(ObjectId(user_id)), name |-> user.name,
                         email |-> user.email, age |-> user.age,
                         created_at |-> user.created_at]}]

\* Mutant of get_user_posts: the find without .sort("created_at", -1), which
\* returns the matching posts in the order of their ObjectIds.
get_user_posts_unsorted(P, user_id) ==
    LET user_object_id == normalize(user_id)
        M == {p \in DOMAIN P : P[p].user_id = user_object_id}
        n == Cardinality(M)
        doc(p) == [_id |-> str(p), user_id |-> str(P[p].user_id),
                   title |-> P[p].title, content |-> P[p].content,
                   created_at |-> P[p].created_at, name |-> P[p].name,
                   email |-> P[p].email, age |-> P[p].age]
        natural == {s \in [1..n -> M] : \A i, j \in 1..n : i < j => s[i].n < s[j].n}
    IN  {[i \in 1..n |-> doc(s[i])] : s \in natural}

\* get_user_posts(user_id): every list the sorted find can return (posts with
\* equal created_at come in either order), ids converted to str.
get_user_posts(P, user_id) ==
    LET user_object_id == normalize(user_id)
        M == {p \in DOMAIN P : P[p].user_id = user_object_id}
        n == Cardinality(M)
        doc(p) == [_id |-> str(p), user_id |-> str(P[p].user_id),
                   title |-> P[p].title, content |-> P[p].content,
                   created_at |-> P[p].created_at, name |-> P[p].name,
                   email |-> P[p].email, age |-> P[p].age]
        sorted == {s \in [1..n -> M] :
                     /\ \A i, j \in 1..n : i # j => s[i] # s[j]
                     /\ \A i, j \in 1..n :
                          i < j => P[s[i]].created_at >= P[s[j]].created_at}
    IN  {[i \in 1..n |-> doc(s[i])] : s \in sorted}

\* GET /users/{user_id}/posts: the response; body holds every list the
\* endpoint can return.
api_get_user_posts(U, P, user_id) ==
    IF ~is_valid(user_id) THEN [status |-> 400, body |-> {}]
    ELSE IF ~find_one(U, ObjectId(user_id)) THEN [status |-> 404, body |-> {}]
    ELSE [status |-> 200,
          body |-> {[i \in DOMAIN lst |->
                        [id |-> lst[i]._id, title |-> lst[i].title,
                         content |-> lst[i].content,
                         created_at |-> lst[i].created_at]] :
                    lst \in get_user_posts(P, user_id)}]

----------------------------------------------------------------------------
(* Running a call *)

\* One round trip of the call in frame f.
Step(S, f, fails, tick) ==
    CASE f.op = "create_user" -> create_user(S, f, fails, tick)
      [] f.op = "create_post" -> create_post(S, f, fails, tick)
      [] f.op = "update_user" -> update_user(S, f, fails, tick)
      [] f.op = "update_post" -> update_post(S, f, fails, tick)
      [] f.op = "delete_user" -> delete_user(S, f, fails, tick)
      [] f.op = "delete_post" -> delete_post(S, f, fails, tick)
      [] f.op = "api_create_user" -> api_create_user(S, f, fails, tick)
      [] f.op = "api_create_post" -> api_create_post(S, f, fails, tick)
      [] f.op = "api_update_user" -> api_update_user(S, f, fails, tick)
      [] f.op = "api_delete_user" -> api_delete_user(S, f, fails, tick)

\* The call in frame f run to its return with no other call in between;
\* its failAt-th round trip raises (0: none does).
RECURSIVE Run(_, _, _, _)
Run(S, f, failAt, tick) ==
    IF f.pc = "done" THEN [S |-> S, f |-> f]
    ELSE LET r == Step(S, f, Len(f.ops) + 1 = failAt, tick)
         IN  Run(r.S, r.f, failAt, tick)

\* Which of a handler's n round trips raises (0: none).
FailAts(n) == 0..n
\* How far the clock may have moved when it is read: the steps in T that
\* keep it within MaxClock.
Ticks(T) == {t \in T : clock + t <= MaxClock}

UserFields == {[NoFields EXCEPT !.name = Some(n), !.email = Some(e), !.age = Some(a)] :
                 n \in Names, e \in Emails, a \in Ages}
PostFields == {[NoFields EXCEPT !.title = Some(t), !.content = Some(c)] :
                 t \in Titles, c \in Contents}
UserUpdates == {[NoFields EXCEPT !.name = n, !.email = e, !.age = a] :
                 n \in Opt(Names), e \in Opt(Emails), a \in Opt(Ages)}
PostUpdates == {[NoFields EXCEPT !.title = t, !.content = c] :
                 t \in Opt(Titles), c \in Opt(Contents)}

\* What is kept of a finished call: the handler, what it returned (ret) or
\* answered (status) and the exception it caught (exc).
Outcome(f) == [op |-> f.op, ret |-> f.ret, status |-> f.status, exc |-> f.exc]

TypeOK ==
    /\ nextOid \in 1..(MaxOids + 1)
    /\ clock \in 0..MaxClock
    /\ DOMAIN users \subseteq {Oid(n) : n \in 1..MaxOids}
    /\ DOMAIN posts \subseteq {Oid(n) : n \in 1..MaxOids}
    /\ DOMAIN users \cap DOMAIN posts = {}

Init ==
    /\ users = << >>
    /\ posts = << >>
    /\ nextOid = 1
    /\ clock = 0
    /\ last = Outcome(Idle)
    /\ frames = << >>

\* A whole call, from entry frame f0 to its return.
Call(f0, failAt, tick) ==
    LET r == Run(Store, f0, failAt, tick)
    IN  /\ users' = r.S.users
        /\ posts' = r.S.posts
        /\ nextOid' = r.S.nextOid
        /\ clock' = r.S.clock
        /\ last' = Outcome(r.f)
        /\ UNCHANGED frames

(* Whole calls, one at a time.  Each action takes the inputs its callers draw: identifier strings I,
   field values F and clock steps T. *)

CallCreateUser(F, T) ==
    \E fields \in F, failAt \in FailAts(1), tick \in Ticks(T) :
        /\ nextOid <= MaxOids
        /\ Call(Begin("create_user", NoArg, fields, "insert"), failAt, tick)

CallCreatePost(I, F, T) ==
    \E user_id \in I, fields \in F, failAt \in FailAts(1), tick \in Ticks(T) :
        /\ nextOid <= MaxOids
        /\ Call(Begin("create_post", user_id, fields, "insert"), failAt, tick)

CallUpdateUser(I, F) ==
    \E user_id \in I, fields \in F, failAt \in FailAts(2) :
        Call(Begin("update_user", user_id, fields, update_user_entry(fields)), failAt, 0)

CallUpdatePost(I, F) ==
    \E post_id \in I, fields \in F, failAt \in FailAts(1) :
        Call(Begin("update_post", post_id, fields, update_post_entry(fields)), failAt, 0)

CallDeleteUser(I) ==
    \E user_id \in I, failAt \in FailAts(2) :
        Call(Begin("delete_user", user_id, NoFields, "delete_many"), failAt, 0)

CallDeletePost(I) ==
    \E post_id \in I, failAt \in FailAts(1) :
        Call(Begin("delete_post", post_id, NoFields, "delete_one"), failAt, 0)

CallApiCreatePost(I, F, T) ==
    \E user_id \in I, fields \in F, failAt \in FailAts(2), tick \in Ticks(T) :
        /\ nextOid <= MaxOids
        /\ Call(api_entry("api_create_post", user_id, fields), failAt, tick)

CallApiUpdateUser(I, F) ==
    \E user_id \in I, fields \in F, failAt \in FailAts(2) :
        Call(api_entry("api_update_user", user_id, fields), failAt, 0)

CallApiDeleteUser(I) ==
    \E user_id \in I, failAt \in FailAts(3) :
        Call(api_entry("api_delete_user", user_id, NoFields), failAt, 0)

CallApiCreateUser(F, T) ==
    \E fields \in F, failAt \in FailAts(1), tick \in Ticks(T) :
        /\ nextOid <= MaxOids
        /\ Call(Begin("api_create_user", NoArg, fields, "insert"), failAt, tick)

(* The menu of main().  What input(...).strip() returns is a str, empty when
   the line is left blank; the age is passed on as typed, not as an int.  A
   str in an age field is written as an integer apart from the ages: the
   digits of a as -a, the empty str as 0. *)

Blank == ""
AgeText(a) == 0 - a
BlankAge == AgeText(0)

NameInputs == {"Ana", Blank}
EmailInputs == {"ana@x.com", Blank}
AgeInputs == {AgeText(a) : a \in Ages} \cup {BlankAge}
TitleInputs == {"Yo", Blank}
ContentInputs == {Blank}

\* choice == '6': db.update_user(user_id, name=name, email=email, age=age)
cli_update_user(user_id, name, email, age) ==
    LET fields == [NoFields EXCEPT !.name = Some(name), !.email = Some(email),
                                   !.age = Some(age)]
    IN  Begin("update_user", user_id, fields, update_user_entry(fields))

\* choice == '7': db.update_post(post_id, title=title, content=content)
cli_update_post(post_id, title, content) ==
    LET fields == [NoFields EXCEPT !.title = Some(title), !.content = Some(content)]
    IN  Begin("update_post", post_id, fields, update_post_entry(fields))

CallCliUpdateUser(I) ==
    \E user_id \in I, name \in NameInputs, email \in EmailInputs, age \in AgeInputs,
       failAt \in FailAts(2) :
        Call(cli_update_user(user_id, name, email, age), failAt, 0)

CallCliUpdatePost(I) ==
    \E post_id \in I, title \in TitleInputs, content \in ContentInputs,
       failAt \in FailAts(1) :
        Call(cli_update_post(post_id, title, content), failAt, 0)

----------------------------------------------------------------------------
(* Accounts alone: creation, update (core and endpoint) and deletion. *)

NextAccounts ==
    \/ CallCreateUser(UserFields, {0, 1})
    \/ CallUpdateUser(IdStrings, UserUpdates)
    \/ CallApiUpdateUser(IdStrings, UserFields)
    \/ CallDeleteUser(IdStrings)

SpecAccounts == Init /\ [][NextAccounts]_vars

(* Accounts and posts, created at one instant and deleted; one name and one
   title. *)

CascadeUsers == {u \in UserFields : u.name = Some("Ana")}
CascadePosts == {p \in PostFields : p.title = Some("Hi")}

NextCascade ==
    \/ CallCreateUser(CascadeUsers, {0})
    \/ CallCreatePost(IdStrings, CascadePosts, {0})
    \/ CallApiCreatePost(IdStrings, CascadePosts, {0})
    \/ CallDeleteUser(IdStrings)
    \/ CallApiDeleteUser(IdStrings)
    \/ CallDeletePost(IdStrings)

SpecCascade == Init /\ [][NextCascade]_vars

(* Accounts and the posts of the first ObjectId, created at one instant, and
   account updates of name and email (core and endpoint). *)

UpdateIds == {str(Oid(1)), str(Oid(2))}
NameEmailUpdates == {u \in UserUpdates : u.age = None}

NextUpdate ==
    \/ CallCreateUser(UserFields, {0})
    \/ CallCreatePost({str(Oid(1))}, CascadePosts, {0})
    \/ CallUpdateUser(UpdateIds, NameEmailUpdates)
    \/ CallApiUpdateUser(UpdateIds, UserFields)

SpecUpdate == Init /\ [][NextUpdate]_vars

(* One account and the posts of the first ObjectId, created at different
   instants, and every update. *)

StampCreates == {u \in CascadeUsers : u.email = Some("ana@x.com")}
StampUpdates == {u \in UserUpdates : u.name # Some("Ana") /\ u.email = None /\ u.age = None}
StampPostUpdates == {p \in PostUpdates : p.title # Some("Hi") /\ p.content = None}
StampUsers == {u \in UserFields : u.name = Some("Bob") /\ u.email = Some("bob@x.com")}

NextStamps ==
    \/ CallCreateUser(StampCreates, {0, 1})
    \/ CallCreatePost({str(Oid(1))}, CascadePosts, {0, 1})
    \/ CallUpdateUser({str(Oid(1))}, StampUpdates)
    \/ CallApiUpdateUser({str(Oid(1))}, StampUsers)
    \/ CallUpdatePost({str(Oid(2)), BadId}, StampPostUpdates)

SpecStamps == Init /\ [][NextStamps]_vars

(* Posts of every owner, existing or not, created at different instants,
   and deleted one by one. *)

NextPosts ==
    \/ CallCreatePost(IdStrings, CascadePosts, {0, 1})
    \/ CallDeletePost(IdStrings)

SpecPosts == Init /\ [][NextPosts]_vars

(* The callers of DatabaseManager: POST /users/ and the menu's updates, on
   one account and the posts of the first ObjectId. *)

NextCallers ==
    \/ CallApiCreateUser(CascadeUsers, {0})
    \/ CallCreatePost({str(Oid(1))}, CascadePosts, {0})
    \/ CallCliUpdateUser({str(Oid(1))})
    \/ CallCliUpdatePost({str(Oid(2)), BadId})

SpecCallers == Init /\ [][NextCallers]_vars

----------------------------------------------------------------------------
(* Concurrent clients.  frames[c] is the call client c is in, or the last
   one it finished; each action is the entry of a call or one round trip. *)

Clients == {"c1", "c2"}

InFlight(c) == c \in DOMAIN frames /\ frames[c].pc # "done"

\* Client c enters the call of frame f0.  A call is concurrent when another
\* call is in flight at some instant of it.
Enter(c, f0) ==
    /\ ~InFlight(c)
    /\ frames' = [d \in DOMAIN frames \cup {c} |->
                    IF d = c
                    THEN [f0 EXCEPT !.concurrent =
                            f0.pc # "done" /\ \E e \in Clients \ {c} : InFlight(e)]
                    ELSE IF InFlight(d) /\ f0.pc # "done"
                    THEN [frames[d] EXCEPT !.concurrent = TRUE]
                    ELSE frames[d]]
    /\ UNCHANGED <<users, posts, nextOid, clock, last>>

\* The next round trip of f is an insert, which draws a fresh ObjectId.
Inserts(f) == f.pc = "insert"

\* One round trip of the call client c is in.
RoundTrip(c, Fails, T) ==
    /\ InFlight(c)
    /\ Inserts(frames[c]) => nextOid <= MaxOids
    /\ \E fails \in Fails, tick \in Ticks(T) :
           LET r == Step(Store, frames[c], fails, tick)
           IN  /\ users' = r.S.users
               /\ posts' = r.S.posts
               /\ nextOid' = r.S.nextOid
               /\ clock' = r.S.clock
               /\ frames' = [frames EXCEPT ![c] = r.f]
               /\ UNCHANGED last

EnterCreateUser(c, F) ==
    \E fields \in F : Enter(c, Begin("create_user", NoArg, fields, "insert"))

EnterCreatePost(c, I, F) ==
    \E user_id \in I, fields \in F :
        Enter(c, Begin("create_post", user_id, fields, "insert"))

EnterApiCreatePost(c, I, F) ==
    \E user_id \in I, fields \in F :
        Enter(c, api_entry("api_create_post", user_id, fields))

EnterDeleteUser(c, I) ==
    \E user_id \in I : Enter(c, Begin("delete_user", user_id, NoFields, "delete_many"))

EnterApiDeleteUser(c, I) ==
    \E user_id \in I : Enter(c, api_entry("api_delete_user", user_id, NoFields))

(* Two clients creating one account, posts for it, and deleting it. *)

ConcUsers == {u \in CascadeUsers : u.email = Some("ana@x.com")}
ConcIds == {str(Oid(1))}

NextConc ==
    \E c \in Clients :
        \/ EnterCreateUser(c, ConcUsers)
        \/ EnterCreatePost(c, ConcIds, CascadePosts)
        \/ EnterApiCreatePost(c, ConcIds, CascadePosts)
        \/ EnterDeleteUser(c, ConcIds)
        \/ EnterApiDeleteUser(c, ConcIds)
        \/ RoundTrip(c, {FALSE}, {0})

SpecConc == Init /\ [][NextConc]_vars

(* Two clients deleting one account concurrently; accounts and posts are
   created while no other call is in flight. *)

CreateOps == {"create_user", "create_post", "api_create_post"}

\* No call is in flight.
Quiet == \A c \in Clients : ~InFlight(c)
\* No creation is in flight.
NoCreateInFlight == \A c \in Clients : InFlight(c) => frames[c].op \notin CreateOps

NextDeletes ==
    \E c \in Clients :
        \/ Quiet /\ EnterCreateUser(c, ConcUsers)
        \/ Quiet /\ EnterCreatePost(c, ConcIds, CascadePosts)
        \/ NoCreateInFlight /\ EnterDeleteUser(c, ConcIds)
        \/ NoCreateInFlight /\ EnterApiDeleteUser(c, ConcIds)
        \/ RoundTrip(c, {FALSE}, {0})

\* A handler is synchronous code: once entered, its next round trip is made.
SpecDeletes ==
    /\ Init /\ [][NextDeletes]_vars
    /\ \A c \in Clients : WF_vars(RoundTrip(c, {FALSE}, {0}))

(* Two clients updating and deleting one account, a round trip at a time,
   any round trip failing; a call that makes no further round trip has
   crashed.  Posts are created through POST /posts/ while no other call is
   in flight. *)

EnterUpdateUser(c, I, F) ==
    \E user_id \in I, fields \in F :
        Enter(c, Begin("update_user", user_id, fields, update_user_entry(fields)))

StepUpdates == {u \in UserUpdates : u.name # Some("Ana") /\ u.email = None /\ u.age = None}

NextSteps ==
    \E c \in Clients :
        \/ Quiet /\ EnterCreateUser(c, ConcUsers)
        \/ Quiet /\ EnterApiCreatePost(c, ConcIds, CascadePosts)
        \/ NoCreateInFlight /\ EnterUpdateUser(c, ConcIds, StepUpdates)
        \/ NoCreateInFlight /\ EnterDeleteUser(c, ConcIds)
        \/ NoCreateInFlight /\ EnterApiDeleteUser(c, ConcIds)
        \/ RoundTrip(c, {FALSE, TRUE}, {0})

SpecSteps == Init /\ [][NextSteps]_vars

----------------------------------------------------------------------------
(* Properties.  Each quantifies over the calls that can be made in the
   current state and looks at what the call returns and leaves behind. *)

\* The call of frame f0 made now, alone, the store answering every round trip.
After(f0) == Run(Store, f0, 0, 0)

delete_user_call(user_id) == Begin("delete_user", user_id, NoFields, "delete_many")
update_user_call(user_id, fields) ==
    Begin("update_user", user_id, fields, update_user_entry(fields))
create_user_call(fields) == Begin("create_user", NoArg, fields, "insert")

\* The posts whose owner reference is the key of user_id.
PostsOf(P, user_id) == matching(P, normalize(user_id))

\* C1: for every id of an existing account, with any number of posts,
\* delete_user run alone returns true, and afterwards get_user_posts(id) is
\* the empty list and GET /users/{id} answers 404 not found.
C1_DeleteLeavesNothing ==
    \A user_id \in IdStrings :
        find_one(users, normalize(user_id)) =>
            LET r == After(delete_user_call(user_id))
            IN  /\ r.f.ret
                /\ get_user_posts(r.S.posts, user_id) = {<< >>}
                /\ api_get_user(r.S.users, user_id).status = 404

\* An account with two posts, which delete_user removes with both.
C1_Witness ==
    \E user_id \in IdStrings :
        /\ find_one(users, normalize(user_id))
        /\ Cardinality(PostsOf(posts, user_id)) = 2
        /\ last.op = "create_post"
        /\ LET r == After(delete_user_call(user_id))
           IN  r.f.ret /\ r.f.count = 2 /\ PostsOf(r.S.posts, user_id) = {}

\* C3: after update_user(id, name=X, ...) every post that get_user_posts(id)
\* returns has name = X (whether or not it carried a name before).
C3_NamePropagates ==
    \A user_id \in IdStrings, fields \in UserUpdates :
        fields.name # None =>
            LET r == After(update_user_call(user_id, fields))
            IN  \A lst \in get_user_posts(r.S.posts, user_id) :
                    \A i \in DOMAIN lst : lst[i].name = fields.name

\* An account whose two posts carry another name, and update_user renames it.
C3_Witness ==
    \E user_id \in IdStrings, X \in Names :
        /\ find_one(users, normalize(user_id))
        /\ Cardinality(PostsOf(posts, user_id)) = 2
        /\ \A p \in PostsOf(posts, user_id) : posts[p].name \notin {None, Some(X)}
        /\ LET r == After(update_user_call(user_id, [NoFields EXCEPT !.name = Some(X)]))
           IN  /\ r.f.ret
               /\ \A p \in PostsOf(r.S.posts, user_id) : r.S.posts[p].name = Some(X)

\* The copies of account fields that post d carries agree with account a.
CopiesAgree(d, a) ==
    /\ d.name # None => d.name = Some(a.name)
    /\ d.email # None => d.email = Some(a.email)
    /\ d.age # None => d.age = Some(a.age)

\* C4: an account update made through the PUT /users/{id} endpoint also
\* propagates the changed name, email and age to the account's posts, so
\* that afterwards the copies on the posts equal the account's fields.
C4_ApiUpdatePropagates ==
    \A user_id \in IdStrings, fields \in UserFields :
        LET r == After(api_entry("api_update_user", user_id, fields))
        IN  r.f.status = 200 =>
                \A p \in PostsOf(r.S.posts, user_id) :
                    CopiesAgree(r.S.posts[p], r.S.users[normalize(user_id)])

\* The accounts that hold email e.
WithEmail(U, e) == {u \in DOMAIN U : U[u].email = e}

\* C5: create_user with an email that an account already holds returns no id
\* and leaves the account collection as it was: exactly one record with that
\* email, with the name and age of the first call.
C5_DuplicateCreateFails ==
    \A fields \in UserFields :
        WithEmail(users, fields.email[1]) # {} =>
            LET r == After(create_user_call(fields))
            IN  /\ ~r.f.ret
                /\ r.f.new = {}
                /\ r.S.users = users
                /\ Cardinality(WithEmail(r.S.users, fields.email[1])) = 1

\* An account exists and a second create with its email and another name
\* is rejected as a duplicate.
C5_Witness ==
    \E fields \in UserFields, u \in DOMAIN users :
        /\ last.op = "create_user" /\ last.exc = "DuplicateKeyError"
        /\ users[u].email = fields.email[1]
        /\ users[u].name # fields.name[1]
        /\ After(create_user_call(fields)).f.exc = "DuplicateKeyError"

\* No two account records have the same email.
UniqueEmails ==
    \A u, v \in DOMAIN users : u # v => users[u].email # users[v].email

\* Another account than the one under key k holds the email of fields.
WouldDuplicate(k, fields) ==
    /\ fields.email # None
    /\ \E o \in DOMAIN users : o # k /\ users[o].email = fields.email[1]

\* C6: in every reachable state no two accounts have the same email, and a
\* create, a core update or an endpoint update that would give an account the
\* email of another one fails and leaves the account collection unchanged.
C6_EmailsStayUnique ==
    /\ UniqueEmails
    /\ \A fields \in UserFields :
           WouldDuplicate(Oid(nextOid), fields) =>
               LET r == After(create_user_call(fields))
               IN  ~r.f.ret /\ r.S.users = users
    /\ \A user_id \in IdStrings, fields \in UserUpdates :
           (find_one(users, normalize(user_id))
              /\ WouldDuplicate(normalize(user_id), fields)) =>
               LET r == After(update_user_call(user_id, fields))
               IN  ~r.f.ret /\ r.S.users = users
    /\ \A user_id \in IdStrings, fields \in UserFields :
           (find_one(users, normalize(user_id))
              /\ WouldDuplicate(normalize(user_id), fields)) =>
               LET r == After(api_entry("api_update_user", user_id, fields))
               IN  r.f.status = 500 /\ r.S.users = users

\* Two accounts, and an update of one to the email of the other was refused.
C6_Witness ==
    /\ Cardinality(DOMAIN users) = 2
    /\ last.op \in {"update_user", "api_update_user"}
    /\ last.exc = "DuplicateKeyError"

\* What the caller of create_user gets back: an id or None.
Returned(f) == [id |-> f.new, truthy |-> f.ret]

\* C7: what create_user returns when the email is already present differs
\* from what it returns when the store call fails.
C7_DuplicateDistinguishable ==
    \A fields \in UserFields :
        WithEmail(users, fields.email[1]) # {} =>
            Returned(Run(Store, create_user_call(fields), 0, 0).f)
                # Returned(Run(Store, create_user_call(fields), 1, 0).f)

\* C8 (first half): an account created with an email nobody holds is
\* returned by GET /users/{id} with exactly the submitted name, email and
\* age and the creation instant.
CreatedAsSubmitted ==
    \A fields \in UserFields, tick \in Ticks({0, 1}) :
        (WithEmail(users, fields.email[1]) = {} /\ nextOid <= MaxOids) =>
            LET r == Run(Store, create_user_call(fields), 0, tick)
            IN  /\ r.f.ret
                /\ \A id \in r.f.new :
                       api_get_user(r.S.users, id) =
                           [status |-> 200,
                            body |-> {[id |-> id, name |-> fields.name[1],
                                       email |-> fields.email[1],
                                       age |-> fields.age[1],
                                       created_at |-> clock + tick]}]
                /\ r.f.new # {}

\* Store state T holds every document of the current state with the
\* created_at it has now.
StampsKept(T) ==
    /\ \A u \in DOMAIN users :
           u \in DOMAIN T.users /\ T.users[u].created_at = users[u].created_at
    /\ \A p \in DOMAIN posts :
           p \in DOMAIN T.posts /\ T.posts[p].created_at = posts[p].created_at

\* C8: a created account reads back as submitted, with the creation instant
\* as created_at, and no update (update_user with its propagation to posts,
\* update_post, PUT /users/{id}), failing or not, changes the created_at of
\* any account or post.
C8_CreatedAtImmutable ==
    /\ CreatedAsSubmitted
    /\ \A user_id \in IdStrings, fields \in UserUpdates, failAt \in FailAts(2) :
           StampsKept(Run(Store, update_user_call(user_id, fields), failAt, 0).S)
    /\ \A post_id \in IdStrings, fields \in PostUpdates, failAt \in FailAts(1) :
           StampsKept(Run(Store, Begin("update_post", post_id, fields,
                                       update_post_entry(fields)), failAt, 0).S)
    /\ \A user_id \in IdStrings, fields \in UserFields, failAt \in FailAts(2) :
           StampsKept(Run(Store, api_entry("api_update_user", user_id, fields),
                          failAt, 0).S)

\* An account and a post created at a later instant than 0, both updated.
C8_Witness ==
    /\ \E u \in DOMAIN users : users[u].created_at > 0 /\ users[u].name = "Bob"
    /\ \E p \in DOMAIN posts : posts[p].created_at > 0 /\ posts[p].name # None
    /\ last.op \in {"update_user", "api_update_user", "update_post"}
    /\ last.ret

\* A value that update_user was given differs from the one account a stores.
Differs(a, fields) ==
    \/ fields.name # None /\ fields.name # Some(a.name)
    \/ fields.email # None /\ fields.email # Some(a.email)
    \/ fields.age # None /\ fields.age # Some(a.age)

\* C9 as stated: update_user returns true if and only if the account exists
\* and a provided value differs from the stored one.
C9_TrueIffDiffers ==
    \A user_id \in IdStrings, fields \in UserUpdates :
        After(update_user_call(user_id, fields)).f.ret
            <=> /\ find_one(users, normalize(user_id))
                /\ Differs(users[normalize(user_id)], fields)

\* The round trips update_user makes for these fields.
update_user_trips(fields) == IF update_user_entry(fields) = "update_many" THEN 2 ELSE 1

\* C9 amended: update_user returns true if and only if the account exists, a
\* provided value differs from the stored one, the new email (if any) is not
\* the email of another account, and no store call raised; then the account
\* holds the provided values.  Otherwise it returns false and the account
\* collection is unchanged.
C9_TrueIffModified ==
    \A user_id \in IdStrings, fields \in UserUpdates, failAt \in FailAts(2) :
        LET r == Run(Store, update_user_call(user_id, fields), failAt, 0)
            k == normalize(user_id)
            changes == /\ find_one(users, k)
                       /\ Differs(users[k], fields)
                       /\ ~WouldDuplicate(k, fields)
                       /\ failAt \notin 1..update_user_trips(fields)
        IN  /\ r.f.ret <=> changes
            /\ r.f.ret => r.S.users = [users EXCEPT ![k] = set_user(@, fields)]
            /\ ~r.f.ret => r.S.users = users

\* An existing account is given the email of another one: a value differs,
\* and update_user returns false.
C9_Witness ==
    \E user_id \in IdStrings, fields \in UserUpdates :
        /\ find_one(users, normalize(user_id))
        /\ Differs(users[normalize(user_id)], fields)
        /\ WouldDuplicate(normalize(user_id), fields)
        /\ last.op = "update_user" /\ last.ret
        /\ ~After(update_user_call(user_id, fields)).f.ret

\* C10: update_user with no name, email or age returns false and issues no
\* write operation to the account collection or the post collection.
C10_EmptyUpdateIssuesNoWrite ==
    \A user_id \in IdStrings :
        LET r == After(update_user_call(user_id, NoFields))
        IN  ~r.f.ret /\ r.f.ops = << >>

\* Client c has finished a delete of an account that returned true, and
\* every other client has finished a post creation for that account that
\* ran concurrently with it.
DeleteRacedCreates(c) ==
    /\ c \in DOMAIN frames
    /\ frames[c].op \in {"delete_user", "api_delete_user"}
    /\ frames[c].pc = "done"
    /\ frames[c].ret
    /\ \A d \in DOMAIN frames \ {c} :
           /\ frames[d].op \in {"create_post", "api_create_post"}
           /\ frames[d].pc = "done"
           /\ frames[d].arg = frames[c].arg
           /\ frames[d].concurrent

\* C2: however delete_user(id) interleaves with concurrent post creations for
\* id (create_post, or POST /posts/ which first checks the owner exists),
\* once every call has completed and the delete has returned true, no post
\* with user_id = id remains.
C2_NoPostSurvivesDelete ==
    \A c \in Clients :
        DeleteRacedCreates(c) => PostsOf(posts, frames[c].arg) = {}

\* The posts of P that the filter {"user_id": key of user_id} leaves alone.
OthersKept(P, T, user_id) ==
    [p \in DOMAIN P \ PostsOf(P, user_id) |-> P[p]] = T

\* C11: delete_user(id) returns true if and only if an account with that id
\* existed and the call removed it, whichever store call fails; and when no
\* account has that id and the store answers, it returns false and has
\* deleted every post whose user_id is the key of id, and no other post.
C11_TrueIffRemoved ==
    \A user_id \in IdStrings :
        /\ \A failAt \in FailAts(2) :
               LET r == Run(Store, delete_user_call(user_id), failAt, 0)
                   k == normalize(user_id)
               IN  /\ r.f.ret <=> (find_one(users, k) /\ ~find_one(r.S.users, k))
                   /\ find_one(users, k) /\ failAt = 0 => r.f.ret
        /\ ~find_one(users, normalize(user_id)) =>
               LET r == After(delete_user_call(user_id))
               IN  /\ ~r.f.ret
                   /\ r.S.users = users
                   /\ PostsOf(r.S.posts, user_id) = {}
                   /\ OthersKept(posts, r.S.posts, user_id)

\* Posts of an id that no account has, next to a post of another owner, and
\* delete_user(id) returns false and removes exactly the former.
C11_Witness ==
    \E user_id \in IdStrings :
        /\ ~find_one(users, normalize(user_id))
        /\ PostsOf(posts, user_id) # {}
        /\ DOMAIN posts \ PostsOf(posts, user_id) # {}
        /\ last.op \in {"create_post", "delete_user"}
        /\ LET r == After(delete_user_call(user_id))
           IN  ~r.f.ret /\ r.f.count > 0 /\ PostsOf(r.S.posts, user_id) = {}

\* Post p was created before post q: the driver generated its ObjectId first.
CreatedBefore(p, q) == p.n < q.n

\* The position of the post with id string id in the list lst.
Position(lst, id) == CHOOSE i \in DOMAIN lst : lst[i]._id = id

\* C12 as stated: in every list get_user_posts(id) can return, a post created
\* after another post of the same owner comes before it.
C12_LaterCreatedFirst ==
    \A user_id \in IdStrings :
        \A lst \in get_user_posts(posts, user_id) :
            \A i, j \in DOMAIN lst :
                CreatedBefore(lst[i]._id, lst[j]._id) => j < i

\* C12 amended: get_user_posts(id) returns each post whose user_id is the key
\* of id exactly once and no other post, in descending order of created_at;
\* a post created after another post of the same owner comes before it
\* whenever its created_at is the later one.
C12_NewestStampFirst ==
    \A user_id \in IdStrings :
        /\ get_user_posts(posts, user_id) # {}
        /\ \A lst \in get_user_posts(posts, user_id) :
               /\ Len(lst) = Cardinality(PostsOf(posts, user_id))
               /\ {lst[i]._id : i \in DOMAIN lst} =
                      {str(p) : p \in PostsOf(posts, user_id)}
               /\ \A i \in DOMAIN lst :
                      /\ lst[i].user_id = str(normalize(user_id))
                      /\ lst[i].created_at = posts[ObjectId(lst[i]._id)].created_at
                      /\ lst[i].title = posts[ObjectId(lst[i]._id)].title
               /\ \A i, j \in DOMAIN lst :
                      i < j => lst[i].created_at >= lst[j].created_at
               /\ \A p, q \in PostsOf(posts, user_id) :
                      (CreatedBefore(p, q) /\ posts[p].created_at < posts[q].created_at)
                          => Position(lst, str(q)) < Position(lst, str(p))

\* Two posts of one owner created at different instants and one of another
\* owner; the owner's list is the later post, then the earlier one.
C12_Witness ==
    \E user_id \in IdStrings, p, q \in DOMAIN posts :
        /\ PostsOf(posts, user_id) = {p, q}
        /\ DOMAIN posts # {p, q}
        /\ CreatedBefore(p, q)
        /\ posts[p].created_at < posts[q].created_at
        /\ last.op = "create_post"
        /\ \A lst \in get_user_posts(posts, user_id) :
               lst[1]._id = str(q) /\ lst[2]._id = str(p)

\* C13: for a malformed identifier string the lookups report no error: GET
\* /users/{id} answers 404 not found, GET /users/{id}/posts answers 404 not
\* found or an empty list, and get_user_posts returns the empty list.
C13_InvalidIdNotFound ==
    \A user_id \in IdStrings :
        ~is_valid(user_id) =>
            /\ api_get_user(users, user_id).status = 404
            /\ \/ api_get_user_posts(users, posts, user_id).status = 404
               \/ api_get_user_posts(users, posts, user_id) =
                      [status |-> 200, body |-> {<< >>}]
            /\ get_user_posts(posts, user_id) = {<< >>}

DeleteOps == {"delete_user", "api_delete_user"}

\* The call of frame f got as far as DatabaseManager.delete_user (an endpoint
\* call that answered 404 or 400 did not).
ReachedCore(f) == \E i \in DOMAIN f.ops : f.ops[i] = "posts.delete_many"

\* Both clients have finished a delete of the account user_id, the two calls
\* ran concurrently, and one of them at least got to delete_user.
BothDeleted(user_id) ==
    /\ \A c \in Clients :
           /\ c \in DOMAIN frames
           /\ frames[c].op \in DeleteOps
           /\ frames[c].arg = user_id
           /\ frames[c].pc = "done"
           /\ frames[c].concurrent
    /\ \E c \in Clients : ReachedCore(frames[c])

\* Neither the account user_id nor a post with that owner exists.
NothingRemains(user_id) ==
    /\ ~find_one(users, normalize(user_id))
    /\ PostsOf(posts, user_id) = {}

\* C14: two concurrent deletes of one account (delete_user, or DELETE
\* /users/{id} which calls it when it finds the account; their round trips
\* interleaved in any order, the store answering) each return, and once both
\* have returned neither the account nor a post of it exists.
C14_ConcurrentDeletesConverge ==
    /\ [](\A user_id \in ConcIds : BothDeleted(user_id) => NothingRemains(user_id))
    /\ \A c \in Clients :
           (InFlight(c) /\ frames[c].op \in DeleteOps) ~> ~InFlight(c)

\* Two concurrent deletes have returned; one removed the account, and one
\* found posts to delete.
C14_Witness ==
    \E user_id \in ConcIds :
        /\ BothDeleted(user_id)
        /\ \E c \in Clients : frames[c].ret
        /\ \E c \in Clients : frames[c].count > 0
        /\ NothingRemains(user_id)

\* C15: when the update_many on posts raises in update_user, the update_one
\* on the account is still performed (the account ends as update_one leaves
\* it) and update_user returns what that update_one gives.
C15_PostFailureSwallowed ==
    \A user_id \in IdStrings, fields \in UserUpdates :
        update_user_entry(fields) = "update_many" =>
            LET r == Run(Store, update_user_call(user_id, fields), 1, 0)
                b == update_one_user(users, normalize(user_id), fields)
            IN  /\ r.S.users = b.coll
                /\ r.f.ret <=> (b.exc = "none" /\ b.modified_count > 0)

\* In the operations frame f has issued, every o2 has an o1 before it.
Precedes(f, o1, o2) ==
    \A i \in DOMAIN f.ops :
        f.ops[i] = o2 => \E j \in 1..(i - 1) : f.ops[j] = o1

\* C16: with posts created only for existing accounts and never during an
\* update or a delete, in every state the calls pass through (between two
\* round trips, after a failed round trip, or where a call stopped for good)
\* an absent account has no posts, and a call writes to the account only
\* after its write to the posts: a delete cut short leaves the account
\* present with its posts gone, never the reverse.
C16_PostsBeforeAccount ==
    /\ \A user_id \in IdStrings :
           ~find_one(users, normalize(user_id)) => PostsOf(posts, user_id) = {}
    /\ \A c \in DOMAIN frames :
           /\ frames[c].op \in DeleteOps =>
                  Precedes(frames[c], "posts.delete_many", "users.delete_one")
           /\ (frames[c].op = "update_user"
                 /\ update_user_entry(frames[c].fields) = "update_many") =>
                  Precedes(frames[c], "posts.update_many", "users.update_one")

\* A delete that removed the account's posts and whose delete_one then
\* failed: the account is still there, its posts are gone.
C16_Witness ==
    \E c \in DOMAIN frames :
        /\ frames[c].op \in DeleteOps
        /\ frames[c].pc = "done"
        /\ frames[c].exc = "StoreError"
        /\ frames[c].count > 0
        /\ Len(frames[c].ops) > 1
        /\ frames[c].ops[Len(frames[c].ops)] = "users.delete_one"
        /\ find_one(users, normalize(frames[c].arg))
        /\ PostsOf(posts, frames[c].arg) = {}

\* Post d carries no copy of an account field.
NoCopy(d) == d.name = None /\ d.email = None /\ d.age = None

\* C17: update_user on an account whose posts carry no copy of name, email
\* or age leaves every post document exactly as it was.
C17_NoCopyPostsUntouched ==
    \A user_id \in IdStrings, fields \in UserUpdates :
        (/\ find_one(users, normalize(user_id))
         /\ \A p \in PostsOf(posts, user_id) : NoCopy(posts[p])) =>
            After(update_user_call(user_id, fields)).S.posts = posts

\* C18: for every identifier string u, well formed or not, held by an account
\* or not, create_post(u, ...) succeeds and stores the key of u (the ObjectId
\* for 24 hex digits, else the string itself) as user_id; the new post is in
\* what get_user_posts(u) returns; and delete_user(u) then removes it with
\* every other post of u.
C18_SameKeyOnWriteAndLookup ==
    \A u \in IdStrings, fields \in PostFields :
        nextOid <= MaxOids =>
            LET r == After(Begin("create_post", u, fields, "insert"))
                d == Run(r.S, delete_user_call(u), 0, 0)
            IN  /\ r.f.ret
                /\ r.f.new # {}
                /\ \A id \in r.f.new :
                       /\ r.S.posts[ObjectId(id)].user_id =
                              (IF is_valid(u) THEN ObjectId(u) ELSE u)
                       /\ \A lst \in get_user_posts(r.S.posts, u) :
                              \E i \in DOMAIN lst : lst[i]._id = id
                       /\ get_user_posts(r.S.posts, u) # {}
                       /\ ObjectId(id) \notin DOMAIN d.S.posts
                /\ PostsOf(d.S.posts, u) = {}
                /\ get_user_posts(d.S.posts, u) = {<< >>}

\* Posts stored under a malformed owner string and under the ObjectId of an
\* id that no account has; each is found and deleted through its string.
C18_Witness ==
    \E u, v \in IdStrings :
        /\ ~is_valid(u) /\ is_valid(v)
        /\ ~find_one(users, normalize(v))
        /\ \E p \in DOMAIN posts : posts[p].user_id = u
        /\ \E p \in DOMAIN posts : posts[p].user_id = ObjectId(v)
        /\ last.op = "create_post" /\ last.ret
        /\ get_user_posts(posts, u) # {<< >>}
        /\ get_user_posts(posts, v) # {<< >>}
        /\ PostsOf(After(delete_user_call(u)).S.posts, u) = {}

\* C19: in the menu's Update User and Update Post, a field left blank keeps
\* the value it has, on the account, on the copies its posts carry, and on
\* the post.
C19_BlankKeepsValue ==
    /\ \A user_id \in IdStrings, name \in NameInputs, email \in EmailInputs,
          age \in AgeInputs :
           LET r == After(cli_update_user(user_id, name, email, age))
               k == normalize(user_id)
           IN  /\ find_one(users, k) =>
                      /\ find_one(r.S.users, k)
                      /\ name = Blank => r.S.users[k].name = users[k].name
                      /\ email = Blank => r.S.users[k].email = users[k].email
                      /\ age = BlankAge => r.S.users[k].age = users[k].age
               /\ \A p \in PostsOf(posts, user_id) :
                      /\ name = Blank => r.S.posts[p].name = posts[p].name
                      /\ email = Blank => r.S.posts[p].email = posts[p].email
                      /\ age = BlankAge => r.S.posts[p].age = posts[p].age
    /\ \A post_id \in IdStrings, title \in TitleInputs, content \in ContentInputs :
           LET r == After(cli_update_post(post_id, title, content))
               k == normalize(post_id)
           IN  find_one(posts, k) =>
                   /\ title = Blank => r.S.posts[k].title = posts[k].title
                   /\ content = Blank => r.S.posts[k].content = posts[k].content

\* C20: when create_user returns no id because the email is already held,
\* POST /users/ answers 400.
C20_DuplicateAnswers400 ==
    \A fields \in UserFields :
        WithEmail(users, fields.email[1]) # {} =>
            LET r == After(Begin("api_create_user", NoArg, fields, "insert"))
            IN  ~r.f.ret /\ r.f.status = 400

\* C21: whenever update_user returns false (no account with that id, the
\* account write rejected as a duplicate email, a store call raising, or
\* nothing to change), the call has left the posts and the accounts exactly
\* as they were.
C21_FailedUpdateChangesNothing ==
    \A user_id \in IdStrings, fields \in UserUpdates, failAt \in FailAts(2) :
        LET r == Run(Store, update_user_call(user_id, fields), failAt, 0)
        IN  ~r.f.ret => (r.S.posts = posts /\ r.S.users = users)

====
